---- MODULE Spec2Model ----
(***************************************************************************)
(* A model of src/missing_data.py: the DataProcessor (series of            *)
(* (position, value) samples, spacing inference, gap detection with        *)
(* placeholder insertion, random deletion, imputation) and the Imputer it  *)
(* configures.                                                             *)
(*                                                                         *)
(* Numbers.  Positions and spacings are real numbers in the program.  The  *)
(* model keeps them in fixed point: the integer v stands for v / Unit.     *)
(* Input positions are whole numbers (multiples of Unit); np.histogram's   *)
(* bin edges divide a range in NumBins parts, which is why Unit = NumBins. *)
(* Python indices are 0-based and are kept 0-based wherever the program    *)
(* stores them (missing_x_arr, rand_ix); the element at Python index j of  *)
(* a list s is s[j + 1] here.                                              *)
(*                                                                         *)
(* Optional values (None or a value) are sequences of length 0 or 1.       *)
(***************************************************************************)
EXTENDS Integers, Sequences, FiniteSets, TLC

VARIABLES
    x_arr,          \* self.x_arr: positions
    y_arr,          \* self.y_arr: values (NaN marks a placeholder)
    n_arr,          \* self.n_arr: the stored sample count
    delta,          \* self.delta: None or the cached spacing
    imputer,        \* self.imputer: None or the Imputer's x_arr / y_arr
    aliased,        \* the Imputer's lists are the very list objects of the processor
    missing_x_arr,  \* self.missing_x_arr: (index, position) of each placeholder
    ran,            \* history: find_missing_data has run on this processor
    last            \* history: the last call, its arguments and its outcome

vars == <<x_arr, y_arr, n_arr, delta, imputer, aliased, missing_x_arr, ran, last>>

----------------------------------------------------------------------------
(* Bounds of the model *)

\* input positions are the whole numbers 0 .. MaxPos
MaxPos == 4
\* the arrays given to the constructor hold 1 .. MaxInit samples
MaxInit == 3
\* find_missing_data is explored while missing_x_arr holds at most MaxSites entries
MaxSites == 2

(* Program constants *)

\* np.histogram's default number of bins
NumBins == 10
\* np.nan, written for a placeholder's value
NaN == -1

\* fixed-point scale: the integer Unit stands for 1.0
Unit == NumBins

None == << >>
Some(v) == << v >>

\* Python truthiness of an optional number: None and 0 are false
Truthy(o) == o # None /\ o[1] # 0

----------------------------------------------------------------------------
(* Helpers on sequences *)

Range(s) == { s[i] : i \in 1..Len(s) }

\* list.insert(j, v) for 0 <= j <= len(s)
ListInsert(s, j, v) == SubSeq(s, 1, j) \o << v >> \o SubSeq(s, j + 1, Len(s))

SetMax(S) == CHOOSE m \in S : \A e \in S : e <= m
SetMin(S) == CHOOSE m \in S : \A e \in S : m <= e

\* zip(x, y): a sequence of pairs
Zip(xs, ys) == [ i \in 1..Len(xs) |-> << xs[i], ys[i] >> ]

\* insertion of pair p in a key-sorted sequence, after the pairs whose key is
\* not larger (sorted() is stable)
RECURSIVE InsertSorted(_, _)
InsertSorted(s, p) ==
    IF s = << >> THEN << p >>
    ELSE IF p[1] < s[1][1] THEN << p >> \o s
    ELSE << s[1] >> \o InsertSorted(Tail(s), p)

\* sorted(pairs, key=lambda tup: tup[0])
RECURSIVE SortedByKey(_)
SortedByKey(s) ==
    IF s = << >> THEN << >>
    ELSE InsertSorted(SortedByKey(SubSeq(s, 1, Len(s) - 1)), s[Len(s)])

----------------------------------------------------------------------------
(* DataProcessor.sort_x_values *)

\* (mutant of sort_x_values) the lists are left in the order given
sort_x_values_unsorted(xs, ys) == [ok |-> xs # << >>, x |-> xs, y |-> ys]

\* The two lists after sort_x_values, and whether it returned.  On empty lists
\* zip(*x_y) yields nothing and the unpacking into (x_arr, y_arr) raises
\* ValueError before anything is assigned.
sort_x_values(xs, ys) ==
    LET x_y == SortedByKey(Zip(xs, ys)) IN
    IF x_y = << >>
    THEN [ok |-> FALSE, x |-> xs, y |-> ys]
    ELSE [ok |-> TRUE,
          x  |-> [ i \in 1..Len(x_y) |-> x_y[i][1] ],
          y  |-> [ i \in 1..Len(x_y) |-> x_y[i][2] ]]

----------------------------------------------------------------------------
(* DataProcessor.__init__ *)

\* Inputs of the constructor: two lists of plain numbers (no np.datetime64
\* elements, so neither conversion runs).  Positions are pairwise distinct
\* whole numbers in any order; a sample's value is its position plus one,
\* which tells the samples apart, as the program never looks into a value.
RawPositions ==
    { s \in UNION { [1..k -> { p * Unit : p \in 0..MaxPos }] : k \in 0..MaxInit } :
        \A i, j \in 1..Len(s) : i # j => s[i] # s[j] }

ValueAt(p) == p \div Unit + 1

RawValues(xs) ==
    { [ i \in 1..k |-> ValueAt(xs[i]) ] : k \in { Len(xs) - 1, Len(xs) } \ { -1 } }

\* __init__ without the test that the two lists are equally long
DataProcessorAnyLengths(xs, ys) ==
    IF Len(xs) = 0
    THEN [ok |-> FALSE, x |-> << >>, y |-> << >>, n |-> Len(xs)]
    ELSE [ok |-> TRUE, x |-> xs, y |-> ys, n |-> Len(xs)]

\* The processor built from (xs, ys), or ok = FALSE when __init__ raises
DataProcessor(xs, ys) ==
    IF Len(ys) # Len(xs) \/ Len(xs) = 0
    THEN [ok |-> FALSE, x |-> << >>, y |-> << >>, n |-> Len(xs)]
    ELSE LET s == sort_x_values(xs, ys) IN
         [ok |-> s.ok, x |-> s.x, y |-> s.y, n |-> Len(xs)]

\* the record of a call: its name, whether it returned (ok) or raised, its
\* numeric argument, the spacing it worked with or cached, the imputer name,
\* whether it was the processor's first find_missing_data, and the exception
\* it raised ("" when it returned)
Call(op, ok, arg, used, name, first) ==
    [op |-> op, ok |-> ok, arg |-> arg, used |-> used, name |-> name, first |-> first,
     err |-> ""]

\* the record of a call that raised exception err
Raised(op, err, arg, name) ==
    [Call(op, FALSE, arg, None, name, FALSE) EXCEPT !.err = err]

NoCall == Call("__init__", TRUE, None, None, "", FALSE)

Init ==
    \E xs \in RawPositions : \E ys \in RawValues(xs) :
        LET dp == DataProcessor(xs, ys) IN
        /\ dp.ok
        /\ x_arr = dp.x
        /\ y_arr = dp.y
        /\ n_arr = dp.n
        /\ delta = None
        /\ imputer = None
        /\ aliased = FALSE
        /\ missing_x_arr = << >>
        /\ ran = FALSE
        /\ last = NoCall

----------------------------------------------------------------------------
(* DataProcessor.infer_delta *)

\* diff_arr: the n - 1 differences of the first n positions
DiffArr(xs, n) == [ j \in 1..(IF n >= 1 THEN n - 1 ELSE 0) |-> xs[j + 1] - xs[j] ]

\* np.histogram's range: (0, 1) for no data, (v - 0.5, v + 0.5) when all the
\* data are the one value v, (min, max) otherwise
HistRange(d) ==
    IF d = << >> THEN [lo |-> 0, hi |-> Unit]
    ELSE LET a == SetMin(Range(d))
             b == SetMax(Range(d)) IN
         IF a = b THEN [lo |-> a - Unit \div 2, hi |-> a + Unit \div 2]
                  ELSE [lo |-> a, hi |-> b]

\* the bin (0 .. NumBins - 1) of value v: bins are half open, the last one closed
BinOf(v, r) ==
    IF v = r.hi THEN NumBins - 1
    ELSE ((v - r.lo) * NumBins) \div (r.hi - r.lo)

\* freq: the number of data in each bin
Freq(d) ==
    LET r == HistRange(d) IN
    [ k \in 0..(NumBins - 1) |-> Cardinality({ j \in 1..Len(d) : BinOf(d[j], r) = k }) ]

\* (mutant of ArgMax) the last index of the largest entry
ArgMaxLast(f) ==
    SetMax({ k \in DOMAIN f : \A m \in DOMAIN f : f[m] <= f[k] })

\* np.argmax: the first index of the largest entry
ArgMax(f) ==
    SetMin({ k \in DOMAIN f : \A m \in DOMAIN f : f[m] <= f[k] })

\* NumBins times the left edge of bin k
EdgeTimesBins(r, k) == r.lo * NumBins + k * (r.hi - r.lo)

\* the edge is a multiple of 1 / Unit, so the fixed point holds it exactly;
\* infer_delta is explored on the series for which it is (all those of
\* whole-number positions are)
Representable(xs, n) ==
    LET d == DiffArr(xs, n) IN
    EdgeTimesBins(HistRange(d), ArgMax(Freq(d))) % NumBins = 0

\* delta[np.argmax(freq)]
InferDelta(xs, n) ==
    LET d == DiffArr(xs, n) IN
    EdgeTimesBins(HistRange(d), ArgMax(Freq(d))) \div NumBins

infer_delta ==
    /\ Representable(x_arr, n_arr)
    /\ delta' = Some(InferDelta(x_arr, n_arr))
    /\ last' = Call("infer_delta", TRUE, None, delta', "", FALSE)
    /\ UNCHANGED <<x_arr, y_arr, n_arr, imputer, aliased, missing_x_arr, ran>>

----------------------------------------------------------------------------
(* DataProcessor.set_imputer *)

\* the keys of the module-level registry
imputers == { "lowess" }

\* names a caller passes
ImputerNames == { "lowess", "spline" }

\* set_imputer falling back to the lowess imputer for an unknown name
set_imputer_fallback(imputer_name) ==
    /\ imputer' = Some([x_arr |-> x_arr, y_arr |-> y_arr])
    /\ aliased' = TRUE
    /\ last' = Call("set_imputer", TRUE, None, None, imputer_name, FALSE)
    /\ UNCHANGED <<x_arr, y_arr, n_arr, delta, missing_x_arr, ran>>

\* Imputer.__init__ keeps x_arr and y_arr themselves, not copies: the Imputer's
\* lists are the processor's list objects until the processor rebinds its own.
\* The fit (statsmodels' lowess, scipy's interp1d) is library code; it is taken
\* to return.
set_imputer(imputer_name) ==
    /\ IF imputer_name \in imputers
       THEN /\ imputer' = Some([x_arr |-> x_arr, y_arr |-> y_arr])
            /\ aliased' = TRUE
       ELSE UNCHANGED <<imputer, aliased>>
    /\ last' = IF imputer_name \in imputers
               THEN Call("set_imputer", TRUE, None, None, imputer_name, FALSE)
               ELSE Raised("set_imputer", "KeyError", None, imputer_name)
    /\ UNCHANGED <<x_arr, y_arr, n_arr, delta, missing_x_arr, ran>>

----------------------------------------------------------------------------
(* DataProcessor.delete_randomly *)

\* values of n a caller passes
DeleteArgs == 0 .. MaxInit

\* random.sample(range(n), k): every sequence of k distinct indices below n
Samples(n, k) ==
    { s \in [1..k -> 0..(n - 1)] : \A i, j \in 1..k : i # j => s[i] # s[j] }

\* np.array(arr)[rand_ix] as a list
Take(arr, rand_ix) == [ i \in 1..Len(rand_ix) |-> arr[rand_ix[i] + 1] ]

delete_randomly(n) ==
    LET k == n_arr - n IN
    IF k < 0 \/ k > n_arr
    THEN \* random.sample raises ValueError: nothing is assigned
         /\ last' = Raised("delete_randomly", "ValueError", Some(n), "")
         /\ UNCHANGED <<x_arr, y_arr, n_arr, delta, imputer, aliased,
                        missing_x_arr, ran>>
    ELSE \E rand_ix \in Samples(n_arr, k) :
            LET s == sort_x_values(Take(x_arr, rand_ix), Take(y_arr, rand_ix)) IN
            /\ x_arr' = s.x
            /\ y_arr' = s.y
            /\ n_arr' = Len(rand_ix)
            /\ aliased' = FALSE
            /\ last' = IF s.ok
                       THEN Call("delete_randomly", TRUE, Some(n), None, "", FALSE)
                       ELSE Raised("delete_randomly", "ValueError", Some(n), "")
            /\ UNCHANGED <<delta, imputer, missing_x_arr, ran>>

----------------------------------------------------------------------------
(* DataProcessor.find_missing_data *)

\* values of delta a caller passes: nothing, 0, and spacings of either sign
DeltaArgs == { None, Some(0), Some(0 - Unit), Some(Unit) }

\* missing_data_ix: the (0-based) indices i below n - 1 with x[i+1] - x[i] > d
MissingDataIx(xs, n, d) ==
    { i \in 0..(n - 2) : xs[i + 2] - xs[i + 1] > d }

\* (mutant of NextIx) the loop takes the flagged indices in ascending order
NextIxAscending(ix) == SetMin(ix)

\* the next index the loop takes: sorted(missing_data_ix, reverse=True)
NextIx(ix) == SetMax(ix)

\* (mutant of InsertStep) the placeholder's position is inserted, its value is not
InsertStepNoValue(st, i, d) ==
    LET x_added == st.x[i + 1] + d IN
    [x     |-> ListInsert(st.x, i + 1, x_added),
     y     |-> st.y,
     sites |-> Append(st.sites, << i + 1, x_added >>)]

\* (mutant of InsertStep) the placeholder is written over the right neighbour
InsertStepOverwrite(st, i, d) ==
    LET x_added == st.x[i + 1] + d IN
    [x     |-> [st.x EXCEPT ![i + 2] = x_added],
     y     |-> [st.y EXCEPT ![i + 2] = NaN],
     sites |-> Append(st.sites, << i + 1, x_added >>)]

\* one turn of the loop for index i: a placeholder after element i
InsertStep(st, i, d) ==
    LET x_added == st.x[i + 1] + d IN
    [x     |-> ListInsert(st.x, i + 1, x_added),
     y     |-> ListInsert(st.y, i + 1, NaN),
     sites |-> Append(st.sites, << i + 1, x_added >>)]

\* the loop over the flagged indices; st holds x, y and sites (missing_x_arr)
RECURSIVE InsertLoop(_, _, _)
InsertLoop(st, ix, d) ==
    IF ix = {} THEN st
    ELSE InsertLoop(InsertStep(st, NextIx(ix), d), ix \ { NextIx(ix) }, d)

\* neither the argument nor the cache holds a spacing: infer_delta is called
NeedsInference(arg) == ~Truthy(arg) /\ ~Truthy(delta)

\* (mutant of Resolved) the cached spacing is preferred to the argument
ResolvedCacheFirst(arg) ==
    IF Truthy(delta) THEN delta[1]
    ELSE IF Truthy(arg) THEN arg[1]
    ELSE InferDelta(x_arr, n_arr)

\* the spacing find_missing_data works with, given its argument
Resolved(arg) ==
    IF Truthy(arg) THEN arg[1]
    ELSE IF Truthy(delta) THEN delta[1]
    ELSE InferDelta(x_arr, n_arr)

find_missing_data(arg) ==
    LET d  == Resolved(arg)
        st == InsertLoop([x |-> x_arr, y |-> y_arr, sites |-> missing_x_arr],
                         MissingDataIx(x_arr, n_arr, d), d) IN
    /\ NeedsInference(arg) => Representable(x_arr, n_arr)
    /\ Len(st.sites) <= MaxSites
    /\ delta' = IF NeedsInference(arg) THEN Some(d) ELSE delta
    /\ x_arr' = st.x
    /\ y_arr' = st.y
    /\ missing_x_arr' = st.sites
    /\ imputer' = IF aliased THEN Some([x_arr |-> st.x, y_arr |-> st.y]) ELSE imputer
    /\ ran' = TRUE
    /\ last' = Call("find_missing_data", TRUE, arg, Some(d), "", ~ran)
    /\ UNCHANGED <<n_arr, aliased>>

----------------------------------------------------------------------------
(* DataProcessor.impute_all *)

\* impute_all without the test of lines 154-155
impute_all_unguarded ==
    /\ last' = IF \E k \in 1..Len(missing_x_arr) :
                       missing_x_arr[k][1] >= Len(y_arr)
               THEN Raised("impute_all", "IndexError", None, "")
               ELSE Call("impute_all", TRUE, None, None, "", FALSE)
    /\ UNCHANGED <<x_arr, y_arr, n_arr, delta, imputer, aliased, missing_x_arr, ran>>

\* The loop only prints (i, y_arr[i]) for each site: it reads y_arr at the
\* recorded index, which raises IndexError past the end, and writes nothing.
\* An Imputer object is true, so 'not self.imputer' tests for None.
impute_all ==
    /\ last' = IF imputer = None
               THEN Raised("impute_all", "ValueError", None, "")
               ELSE IF \E k \in 1..Len(missing_x_arr) :
                           missing_x_arr[k][1] >= Len(y_arr)
               THEN Raised("impute_all", "IndexError", None, "")
               ELSE Call("impute_all", TRUE, None, None, "", FALSE)
    /\ UNCHANGED <<x_arr, y_arr, n_arr, delta, imputer, aliased, missing_x_arr, ran>>

----------------------------------------------------------------------------
Next ==
    \/ infer_delta
    \/ \E name \in ImputerNames : set_imputer(name)
    \/ \E n \in DeleteArgs : delete_randomly(n)
    \/ \E arg \in DeltaArgs : find_missing_data(arg)
    \/ impute_all

Spec == Init /\ [][Next]_vars

----------------------------------------------------------------------------
(* infer_delta as a function of the series: processors built from the       *)
(* whole-number positions of a longer series, on which infer_delta is       *)
(* called.                                                                  *)

\* the positions of the series 0, 1, 2, 3, 10, 11, 12, 13
InferPositions == { p * Unit : p \in (0..3) \cup (10..13) }

\* the members of S in ascending order
RECURSIVE Ascending(_)
Ascending(S) ==
    IF S = {} THEN << >>
    ELSE Append(Ascending(S \ { SetMax(S) }), SetMax(S))

InitInfer ==
    \E S \in SUBSET InferPositions :
        LET xs == Ascending(S)
            dp == DataProcessor(xs, [ i \in 1..Len(xs) |-> ValueAt(xs[i]) ]) IN
        /\ dp.ok
        /\ x_arr = dp.x
        /\ y_arr = dp.y
        /\ n_arr = dp.n
        /\ delta = None
        /\ imputer = None
        /\ aliased = FALSE
        /\ missing_x_arr = << >>
        /\ ran = FALSE
        /\ last = NoCall

NextInfer == infer_delta

SpecInfer == InitInfer /\ [][NextInfer]_vars

----------------------------------------------------------------------------
(* Vocabulary of the properties *)

\* the (1-based) left endpoints of the consecutive pairs of xs wider than d
WideGaps(xs, d) == { i \in 1..(Len(xs) - 1) : xs[i + 1] - xs[i] > d }

\* how many members of G lie below i
Below(G, i) == Cardinality({ g \in G : g < i })

StrictlyIncreasing(xs) == \A i \in 1..(Len(xs) - 1) : xs[i] < xs[i + 1]

\* the step just taken is a call of op
Called(op) == last'.op = op

----------------------------------------------------------------------------
(* C1: a find_missing_data call on a processor on which it has not run      *)
(* before, working with spacing d, puts exactly one (p + d, NaN) right      *)
(* after p for every consecutive pair (p, q) with q - p > d and changes     *)
(* nothing else: every earlier sample keeps its value and its order, and    *)
(* the series grows by the number of such pairs, however wide each is.      *)
C1_OnePlaceholderPerGap ==
    [][ (Called("find_missing_data") /\ last'.first) =>
        LET d == last'.used[1]
            G == WideGaps(x_arr, d) IN
        /\ Len(x_arr') = Len(x_arr) + Cardinality(G)
        /\ Len(y_arr') = Len(y_arr) + Cardinality(G)
        /\ \A i \in 1..Len(x_arr) :
              /\ x_arr'[i + Below(G, i)] = x_arr[i]
              /\ y_arr'[i + Below(G, i)] = y_arr[i]
        /\ \A g \in G :
              /\ x_arr'[g + Below(G, g) + 1] = x_arr[g] + d
              /\ y_arr'[g + Below(G, g) + 1] = NaN
      ]_vars

\* a first call has filled a gap three spacings wide with a single placeholder
C1_Witness ==
    /\ last.op = "find_missing_data"
    /\ last.first
    /\ last.used[1] > 0
    /\ Len(missing_x_arr) = 1
    /\ LET j == missing_x_arr[1][1] IN
       /\ x_arr[j + 1] = missing_x_arr[1][2]
       /\ y_arr[j + 1] = NaN
       /\ x_arr[j + 2] - x_arr[j] = 3 * last.used[1]

----------------------------------------------------------------------------
(* C2: when find_missing_data returns, every (index, position) entry it     *)
(* appended to missing_x_arr names the slot of its placeholder:             *)
(* x_arr[index] = position and y_arr[index] is NaN, also when the call      *)
(* flagged several gaps.  (Stated for calls that work with a positive       *)
(* spacing.)                                                                *)
C2_SitesNameTheirSlots ==
    [][ (Called("find_missing_data") /\ last'.used[1] > 0) =>
        \A k \in (Len(missing_x_arr) + 1)..Len(missing_x_arr') :
            LET e == missing_x_arr'[k] IN
            /\ e[1] + 1 \in 1..Len(x_arr')
            /\ x_arr'[e[1] + 1] = e[2]
            /\ y_arr'[e[1] + 1] = NaN
      ]_vars

----------------------------------------------------------------------------
(* The Imputer's fitted range *)

\* lowess drops the samples whose value is NaN and interp1d (bounds_error =
\* False) answers NaN outside [min, max] of the positions it was given
FittedPositions(imp) ==
    { imp.x_arr[i] : i \in { j \in 1..Len(imp.x_arr) : imp.y_arr[j] # NaN } }

InFittedRange(imp, pos) ==
    /\ FittedPositions(imp) # {}
    /\ SetMin(FittedPositions(imp)) <= pos
    /\ pos <= SetMax(FittedPositions(imp))

----------------------------------------------------------------------------
(* C3: after impute_all returns on a processor with an imputer and a        *)
(* non-empty missing_x_arr, the value at every recorded site whose position *)
(* lies in the imputer's fitted range is the imputer's value there, a       *)
(* number and no longer NaN; a site outside the range keeps NaN.            *)
C3_ImputeFillsSites ==
    (last.op = "impute_all" /\ last.ok /\ missing_x_arr # << >>) =>
        \A k \in 1..Len(missing_x_arr) :
            LET e == missing_x_arr[k] IN
            IF InFittedRange(imputer[1], e[2])
            THEN y_arr[e[1] + 1] # NaN
            ELSE y_arr[e[1] + 1] = NaN

----------------------------------------------------------------------------
----------------------------------------------------------------------------
(* C5: in every reachable state, the states failed calls leave included,    *)
(* x_arr and y_arr have the same length.                                    *)
C5_SameLength == Len(x_arr) = Len(y_arr)

\* a delete_randomly call has failed on a series that holds placeholders
C5_Witness ==
    /\ last.op = "delete_randomly"
    /\ ~last.ok
    /\ \E i \in 1..Len(y_arr) : y_arr[i] = NaN

----------------------------------------------------------------------------
(* C6: in every reachable state n_arr is the length of x_arr and of y_arr.  *)
C6_CountIsLength == n_arr = Len(x_arr) /\ n_arr = Len(y_arr)

----------------------------------------------------------------------------
(* C7: in a state with increasing positions, placeholders or not,           *)
(* delete_randomly(n) with 0 <= n < n_arr removes exactly n samples         *)
(* whatever is drawn: the series is n pairs shorter, every remaining pair   *)
(* was a pair of the series before, and the positions are sorted.           *)
C7_DeletesExactlyN ==
    [][ (/\ Called("delete_randomly")
         /\ StrictlyIncreasing(x_arr)
         /\ 0 <= last'.arg[1]
         /\ last'.arg[1] < n_arr) =>
        /\ Len(x_arr') = Len(x_arr) - last'.arg[1]
        /\ Len(y_arr') = Len(y_arr) - last'.arg[1]
        /\ \A j \in 1..Len(x_arr') :
              \E i \in 1..Len(x_arr) : x_arr[i] = x_arr'[j] /\ y_arr[i] = y_arr'[j]
        /\ \A j \in 1..(Len(x_arr') - 1) : x_arr'[j] <= x_arr'[j + 1]
      ]_vars

----------------------------------------------------------------------------
(* C8: delete_randomly(n) with n >= n_arr fails, and no call, failed or     *)
(* not, leaves the series empty: after every call x_arr holds a sample and  *)
(* n_arr >= 1.                                                              *)
C8_NeverEmpty ==
    [][ /\ (Called("delete_randomly") /\ last'.arg[1] >= n_arr) => ~last'.ok
        /\ Len(x_arr') >= 1
        /\ n_arr' >= 1
      ]_vars

----------------------------------------------------------------------------
----------------------------------------------------------------------------
(* C10: on a series of at least two samples infer_delta returns, and        *)
(* caches, the left edge of the fullest bin of a histogram of the n_arr - 1 *)
(* consecutive differences: NumBins bins of equal width from the smallest   *)
(* difference a to the largest b, each holding the differences from its     *)
(* left edge up to, not including, the next edge (the last bin holds b      *)
(* too); of several fullest bins the lowest is taken.  When all the         *)
(* differences are equal the result is that difference.  For the positions *)
(* 0, 1, 2, 3, 10, 11, 12, 13 the result is 1.                              *)
C10_ModalBinEdge ==
    (last.op = "infer_delta" /\ n_arr >= 2) =>
        LET d == [ j \in 1..(n_arr - 1) |-> x_arr[j + 1] - x_arr[j] ]
            a == SetMin(Range(d))
            b == SetMax(Range(d))
            e == last.used[1]
            \* NumBins times the left edge of bin m
            Edge(m) == a * NumBins + m * (b - a)
            InBin(v, m) ==
                /\ Edge(m) <= v * NumBins
                /\ v * NumBins < Edge(m + 1) \/ m = NumBins - 1
            Count(m) == Cardinality({ j \in 1..Len(d) : InBin(d[j], m) }) IN
        /\ delta = last.used
        /\ IF a = b THEN e = a
           ELSE \E k \in 0..(NumBins - 1) :
                   /\ e * NumBins = Edge(k)
                   /\ \A m \in 0..(NumBins - 1) : Count(m) <= Count(k)
                   /\ \A m \in 0..(k - 1) : Count(m) < Count(k)
        /\ x_arr = Ascending(InferPositions) => e = Unit

\* infer_delta has run on the positions 0, 1, 2, 3, 10, 11, 12, 13
C10_Witness ==
    /\ last.op = "infer_delta"
    /\ x_arr = Ascending(InferPositions)
    /\ n_arr = 8
    /\ delta = Some(Unit)

----------------------------------------------------------------------------
(* C11: an Imputer built by set_imputer holds a snapshot of its own: no     *)
(* later call on the processor (delete_randomly, infer_delta, impute_all,   *)
(* a find_missing_data that works with a positive spacing) changes the      *)
(* position and value lists the Imputer stored when it was built.           *)
C11_ImputerKeepsItsSnapshot ==
    [][ (/\ imputer # None
         /\ ~Called("set_imputer")
         /\ Called("find_missing_data") => last'.used[1] > 0)
        => imputer' = imputer ]_vars

----------------------------------------------------------------------------
(* Evaluating the imputer: the processor's imputer is called at a position, *)
(* as a caller holding dp.imputer can do.                                   *)

\* the names bound inside LowessImputer.__call__ and at module level
CallLocals == { "self", "x_val" }
ModuleNames == { "random", "sm", "dt", "np", "parse", "interp1d", "Imputer",
                 "LowessImputer", "imputers", "DataProcessor",
                 "pd", "data", "time_int", "dp" }

\* the positions a caller evaluates at: inside and outside the series
EvalArgs == { p * Unit : p \in 0 .. MaxPos + 1 }

\* __call__(self, x_val) returns self.interpolator(x): the body reads the
\* name x, which is neither its parameter x_val nor a module-level name, so
\* the lookup raises NameError before the interpolator is called.
LowessImputer_call(x_val) ==
    /\ imputer # None
    /\ "x" \notin CallLocals \cup ModuleNames
    /\ last' = Raised("__call__", "NameError", Some(x_val), "")
    /\ UNCHANGED <<x_arr, y_arr, n_arr, delta, imputer, aliased, missing_x_arr, ran>>

NextEval ==
    \/ \E name \in ImputerNames : set_imputer(name)
    \/ \E arg \in DeltaArgs : find_missing_data(arg)
    \/ \E x_val \in EvalArgs : LowessImputer_call(x_val)

SpecEval == Init /\ [][NextEval]_vars

----------------------------------------------------------------------------
(* C12: evaluating a constructed imputer at any position completes without  *)
(* raising: the call returns a value, which is a number when the position   *)
(* lies in the fitted range and the NaN marker when it lies outside.        *)
C12_EvaluationReturns ==
    last.op = "__call__" =>
        /\ last.ok
        /\ last.used # None
        /\ InFittedRange(imputer[1], last.arg[1]) <=> last.used[1] # NaN

----------------------------------------------------------------------------
(* C13: impute_all on a processor without an imputer raises the 'No imputer *)
(* set' ValueError and leaves x_arr, y_arr, n_arr, delta and missing_x_arr  *)
(* as they were; a set_imputer that returns leaves an imputer, no call      *)
(* removes it, and with an imputer impute_all never raises that error.      *)
C13_NoImputerFailsCleanly ==
    [][ /\ (Called("set_imputer") /\ last'.ok) => imputer' # None
        /\ imputer # None => imputer' # None
        /\ Called("impute_all") =>
             /\ imputer = None =>
                  /\ ~last'.ok
                  /\ last'.err = "ValueError"
                  /\ UNCHANGED <<x_arr, y_arr, n_arr, delta, missing_x_arr>>
             /\ imputer # None => last'.err # "ValueError" ]_vars

\* impute_all has failed for want of an imputer on a processor that holds
\* placeholders and a cached spacing
C13_Witness ==
    /\ last.op = "impute_all"
    /\ last.err = "ValueError"
    /\ imputer = None
    /\ missing_x_arr # << >>
    /\ delta # None

----------------------------------------------------------------------------
(* C14: set_imputer with a name that is not registered raises KeyError,     *)
(* builds no imputer in its place and leaves the imputer (or its absence)   *)
(* and the series as they were; with a registered name it replaces the      *)
(* imputer by one built from the processor's current x_arr and y_arr.       *)
C14_UnknownNameChangesNothing ==
    [][ Called("set_imputer") =>
          /\ UNCHANGED <<x_arr, y_arr, n_arr, delta, missing_x_arr>>
          /\ last'.name \notin imputers =>
               /\ ~last'.ok
               /\ last'.err = "KeyError"
               /\ imputer' = imputer
          /\ last'.name \in imputers =>
               /\ last'.ok
               /\ imputer' = Some([x_arr |-> x_arr, y_arr |-> y_arr]) ]_vars

\* an unknown name was refused on a processor that keeps the imputer it had
\* and holds placeholders
C14_Witness ==
    /\ last.op = "set_imputer"
    /\ last.err = "KeyError"
    /\ last.name \notin imputers
    /\ imputer # None
    /\ missing_x_arr # << >>

----------------------------------------------------------------------------
(* The constructor as a function of its arguments: a state holds the two    *)
(* arguments of a pending DataProcessor(x_arr, y_arr) and their types, and  *)
(* the one step runs __init__ on them.                                      *)

\* the types of the two arguments (x_arr, y_arr): lists, or a sequence that
\* is not a list
ArgTypes == { "list,list", "list,tuple", "tuple,list", "tuple,tuple" }

\* a call of DataProcessor(x_arr, y_arr) about to run on arguments of types t
Pending(t) == Call("DataProcessor", TRUE, None, None, t, FALSE)

InitNew ==
    \E xs \in RawPositions : \E ys \in RawValues(xs) \cup { << >> } :
    \E t \in ArgTypes :
        /\ x_arr = xs
        /\ y_arr = ys
        /\ n_arr = 0
        /\ delta = None
        /\ imputer = None
        /\ aliased = FALSE
        /\ missing_x_arr = << >>
        /\ ran = FALSE
        /\ last = Pending(t)

\* __init__ raises ValueError at the isinstance test (before n_arr is set), at
\* the length test or at the emptiness test; otherwise it stores the sorted
\* lists and clears delta, imputer and missing_x_arr.
DataProcessor_init ==
    /\ last.op = "DataProcessor"
    /\ LET dp == IF last.name # "list,list"
                 THEN [ok |-> FALSE, x |-> << >>, y |-> << >>, n |-> 0]
                 ELSE DataProcessor(x_arr, y_arr)
       IN /\ x_arr' = dp.x
          /\ y_arr' = dp.y
          /\ n_arr' = dp.n
          /\ last' = IF dp.ok THEN NoCall
                     ELSE Raised("__init__", "ValueError", None, "")
    /\ delta' = None
    /\ imputer' = None
    /\ missing_x_arr' = << >>
    /\ UNCHANGED <<aliased, ran>>

NextNew == DataProcessor_init

SpecNew == InitNew /\ [][NextNew]_vars

----------------------------------------------------------------------------
(* C15: constructing a processor raises ValueError when the two arguments   *)
(* differ in length, when both are empty, or when either is not a list; a   *)
(* construction that returns yields n_arr >= 1, no cached delta, no imputer *)
(* and an empty missing_x_arr.                                              *)
C15_ConstructionValidates ==
    [][ Called("__init__") =>
          /\ ( \/ last.name # "list,list"
               \/ Len(x_arr) # Len(y_arr)
               \/ (x_arr = << >> /\ y_arr = << >>) )
             => (~last'.ok /\ last'.err = "ValueError")
          /\ last'.ok =>
               /\ n_arr' >= 1
               /\ n_arr' = Len(x_arr')
               /\ delta' = None
               /\ imputer' = None
               /\ missing_x_arr' = << >> ]_vars

\* a construction from two lists of different lengths has been refused: the
\* isinstance test passed, so n_arr was set to the length of the first
C15_Witness ==
    /\ last.op = "__init__"
    /\ last.err = "ValueError"
    /\ n_arr >= 2

----------------------------------------------------------------------------
(* C16: find_missing_data called again and again with the same positive     *)
(* spacing d brings the series to a state where no two neighbours anywhere  *)
(* lie more than d apart, after which further calls insert nothing.  A call *)
(* changes nothing but the series it scans, so the first repeated call that *)
(* inserts nothing is at that state: no pair wider than d is left.          *)
C16_RepeatedCallsCloseEveryGap ==
    [][ (/\ last.op = "find_missing_data"
         /\ Called("find_missing_data")
         /\ last'.arg # None
         /\ last'.arg[1] > 0
         /\ last.arg = last'.arg
         /\ StrictlyIncreasing(x_arr)
         /\ x_arr' = x_arr)
        => WideGaps(x_arr', last'.arg[1]) = {} ]_vars

----------------------------------------------------------------------------
(* find_missing_data with an inferred spacing: processors built from the    *)
(* whole-number positions of a short series, on which the spacing is        *)
(* inferred (by infer_delta, or by find_missing_data called without one).   *)

\* the positions of the series 0, 1, 2, 3, 4, 5
CadencePositions == { p * Unit : p \in 0..5 }

InitCadence ==
    \E S \in SUBSET CadencePositions :
        LET xs == Ascending(S)
            dp == DataProcessor(xs, [ i \in 1..Len(xs) |-> ValueAt(xs[i]) ]) IN
        /\ dp.ok
        /\ x_arr = dp.x
        /\ y_arr = dp.y
        /\ n_arr = dp.n
        /\ delta = None
        /\ imputer = None
        /\ aliased = FALSE
        /\ missing_x_arr = << >>
        /\ ran = FALSE
        /\ last = NoCall

NextCadence ==
    \/ infer_delta
    \/ find_missing_data(None)

SpecCadence == InitCadence /\ [][NextCadence]_vars

\* how often the difference v occurs among the consecutive differences d
Occurrences(d, v) == Cardinality({ j \in 1..Len(d) : d[j] = v })

\* v is the most frequent of the differences d: it occurs more often than any
\* other
MostFrequent(d, v) ==
    \A j \in 1..Len(d) : d[j] # v => Occurrences(d, d[j]) < Occurrences(d, v)

\* the series (xs2, ys2) holds a placeholder right after the sample at pos
PlaceholderAfter(xs2, ys2, pos) ==
    \E j \in 1..(Len(xs2) - 1) : xs2[j] = pos /\ ys2[j + 1] = NaN

----------------------------------------------------------------------------
(* C17: the first find_missing_data of a processor, working with the        *)
(* spacing infer_delta gives for its series, puts no placeholder between    *)
(* two neighbours whose difference is the most frequent consecutive         *)
(* difference; a series with all differences equal receives none at all.    *)
C17_NominalCadenceIsNoGap ==
    [][ (Called("find_missing_data") /\ last'.first /\ last'.arg = None) =>
          \A i \in 1..(Len(x_arr) - 1) :
              MostFrequent(DiffArr(x_arr, Len(x_arr)), x_arr[i + 1] - x_arr[i])
                  => ~PlaceholderAfter(x_arr', y_arr', x_arr[i]) ]_vars

----------------------------------------------------------------------------
\* the sequence s without the elements at the indices in S
Without(s, S) ==
    LET idx == Ascending((1..Len(s)) \ S) IN
    [ i \in 1..Len(idx) |-> s[idx[i]] ]

(* C18: a find_missing_data call only adds placeholders: there are slots of *)
(* the series after the call, one per entry the call appended to            *)
(* missing_x_arr, each holding NaN at the position of such an entry, and    *)
(* taking them out leaves exactly the x_arr and y_arr of before the call,   *)
(* in the same order and pairing; the entries missing_x_arr held before are *)
(* kept in place and the new entries follow them.                           *)
C18_OnlyAddsPlaceholders ==
    [][ Called("find_missing_data") =>
          /\ Len(missing_x_arr') >= Len(missing_x_arr)
          /\ SubSeq(missing_x_arr', 1, Len(missing_x_arr)) = missing_x_arr
          /\ \E S \in SUBSET { j \in 1..Len(y_arr') : y_arr'[j] = NaN } :
                /\ Cardinality(S) = Len(missing_x_arr') - Len(missing_x_arr)
                /\ { x_arr'[j] : j \in S } =
                       { missing_x_arr'[k][2] :
                           k \in (Len(missing_x_arr) + 1)..Len(missing_x_arr') }
                /\ Without(x_arr', S) = x_arr
                /\ Without(y_arr', S) = y_arr ]_vars

\* a later call with a positive spacing has added a placeholder to a series
\* that held one already: within one call the recorded indices descend, so an
\* entry with a higher index than the one before it was appended by a later call
C18_Witness ==
    /\ last.op = "find_missing_data"
    /\ ~last.first
    /\ last.used[1] > 0
    /\ Len(missing_x_arr) = 2
    /\ missing_x_arr[1][1] < missing_x_arr[2][1]
    /\ StrictlyIncreasing(x_arr)
    /\ Len(x_arr) = n_arr + 2

====
